---- MODULE Spec2Model ----
(***************************************************************************)
(* Batch physics kernels of wasm-physics/src/lib.rs over flat, interleaved *)
(* f32 buffers.  The kernels are pure array transforms; the host owns the  *)
(* buffers and calls the kernels.  An f32 is modelled by its value: the    *)
(* pair <<m, e>> stands for m * 2^e, with m = 0 (and e = 0) or             *)
(* 2^23 <= |m| < 2^24.  The arithmetic rounds to nearest, ties to even,    *)
(* as the f32 operations of the build do.  Infinities, NaN, subnormals and *)
(* the sign of zero are outside the model: the inputs keep every           *)
(* intermediate value in the normal range (see InRange).                   *)
(***************************************************************************)
EXTENDS Integers, Sequences, FiniteSets, TLC

(***************************************************************************)
(* f32 arithmetic                                                          *)
(***************************************************************************)

\* Number of significand bits of an f32 (implicit bit included).
MantBits == 24

Zero == <<0, 0>>

AbsInt(n) == IF n < 0 THEN -n ELSE n

RECURSIVE BitLen(_)
BitLen(n) == IF n = 0 THEN 0 ELSE 1 + BitLen(n \div 2)

\* The f32 nearest to mag * 2^e (mag > 0), ties to even.  sticky says that
\* the exact value lies strictly between mag * 2^e and (mag + 1) * 2^e; the
\* callers then pass a mag of at least MantBits + 2 bits.
RoundMag(mag, e, sticky) ==
  LET len == BitLen(mag)
  IN IF len <= MantBits
       THEN <<mag * 2^(MantBits - len), e - (MantBits - len)>>
       ELSE LET s    == len - MantBits
                q    == mag \div 2^s
                r    == mag % (2^s)
                half == 2^(s - 1)
                up   == \/ r > half
                        \/ r = half /\ (sticky \/ (q % 2) = 1)
                q2   == IF up THEN q + 1 ELSE q
            IN IF q2 = 2^MantBits THEN <<2^(MantBits - 1), e + s + 1>>
                                  ELSE <<q2, e + s>>

Round(neg, mag, e, sticky) ==
  IF mag = 0 THEN Zero
  ELSE LET r == RoundMag(mag, e, sticky)
       IN IF neg THEN <<-r[1], r[2]>> ELSE r

\* The f32 of the exactly representable n * 2^k.
Lit(n, k) == Round(n < 0, AbsInt(n), k, FALSE)

\* The operations below take their operands by value: an operand is
\* evaluated once and bound (x, y) before the operation works on it.

FNeg(a) == CHOOSE r \in {<<-x[1], x[2]>> : x \in {a}} : TRUE

\* f32::abs
FAbs(a) == CHOOSE r \in {<<AbsInt(x[1]), x[2]>> : x \in {a}} : TRUE

LtVal(a, b) ==
  IF a[1] > 0 /\ b[1] > 0 THEN a[2] < b[2] \/ (a[2] = b[2] /\ a[1] < b[1])
  ELSE IF a[1] < 0 /\ b[1] < 0 THEN a[2] > b[2] \/ (a[2] = b[2] /\ a[1] < b[1])
  ELSE a[1] < b[1]

\* a < b
FLt(a, b) == \E x \in {a}, y \in {b} : LtVal(x, y)

FGt(a, b) == FLt(b, a)

FGe(a, b) == ~FLt(a, b)

FLe(a, b) == ~FLt(b, a)

\* a + b with |a| >= |b| in exponent (a[2] >= b[2]), both nonzero.
AddOrdered(a, b) ==
  LET d == a[2] - b[2]
  IN IF d <= 6
       THEN LET x == a[1] * 2^d + b[1]
            IN Round(x < 0, AbsInt(x), b[2], FALSE)
       ELSE LET big  == AbsInt(a[1]) * 2^6
                sh   == d - 6
                bq   == IF sh >= MantBits THEN 0 ELSE AbsInt(b[1]) \div 2^sh
                brem == IF sh >= MantBits THEN TRUE ELSE (AbsInt(b[1]) % (2^sh)) # 0
                same == (a[1] < 0) = (b[1] < 0)
                x    == IF same THEN big + bq
                        ELSE IF brem THEN big - bq - 1 ELSE big - bq
            IN Round(a[1] < 0, x, a[2] - 6, brem)

AddVal(a, b) ==
  IF a[1] = 0 THEN b
  ELSE IF b[1] = 0 THEN a
  ELSE IF a[2] >= b[2] THEN AddOrdered(a, b) ELSE AddOrdered(b, a)

\* f32 addition
FAdd(a, b) == CHOOSE r \in {AddVal(x, y) : x \in {a}, y \in {b}} : TRUE

\* f32 subtraction
FSub(a, b) == FAdd(a, FNeg(b))

\* The 48-bit product of the significands is formed from 12-bit halves and
\* rounded.
MulVal(a, b) ==
  IF a[1] = 0 \/ b[1] = 0 THEN Zero
  ELSE LET ma  == AbsInt(a[1])
           mb  == AbsInt(b[1])
           a1  == ma \div 4096
           a0  == ma % 4096
           b1  == mb \div 4096
           b0  == mb % 4096
           lo  == a0 * b0
           mid == a1 * b0 + a0 * b1 + (lo \div 4096)
           hi  == a1 * b1 + (mid \div 4096)
           low == (mid % 4096) * 4096 + (lo % 4096)
           mag == hi * 64 + (low \div 262144)
       IN Round((a[1] < 0) # (b[1] < 0), mag, a[2] + b[2] + 18,
                (low % 262144) # 0)

\* f32 multiplication
FMul(a, b) == CHOOSE r \in {MulVal(x, y) : x \in {a}, y \in {b}} : TRUE

\* n more quotient bits of r / d by long division: <<quotient, remainder>>.
RECURSIVE DivBits(_, _, _, _)
DivBits(q, r, d, n) ==
  IF n = 0 THEN <<q, r>>
  ELSE IF 2 * r >= d THEN DivBits(2 * q + 1, 2 * r - d, d, n - 1)
                     ELSE DivBits(2 * q, 2 * r, d, n - 1)

DivVal(a, b) ==
  IF a[1] = 0 THEN Zero
  ELSE LET ma == AbsInt(a[1])
           mb == AbsInt(b[1])
           qr == DivBits(ma \div mb, ma % mb, mb, 27)
       IN Round((a[1] < 0) # (b[1] < 0), qr[1], a[2] - b[2] - 27, qr[2] # 0)

\* f32 division by a nonzero b
FDiv(a, b) == CHOOSE r \in {DivVal(x, y) : x \in {a}, y \in {b}} : TRUE

\* Integer square root and remainder of n, between lo and hi.
RECURSIVE ISqrt(_, _, _)
ISqrt(n, lo, hi) ==
  IF lo = hi THEN lo
  ELSE LET mid == (lo + hi + 1) \div 2
       IN IF mid * mid <= n THEN ISqrt(n, mid, hi) ELSE ISqrt(n, lo, mid - 1)

\* n more root bits, two zero radicand bits at a time: <<root, remainder>>.
RECURSIVE SqrtBits(_, _, _)
SqrtBits(root, rem, n) ==
  IF n = 0 THEN <<root, rem>>
  ELSE IF 4 * rem >= 4 * root + 1
         THEN SqrtBits(2 * root + 1, 4 * rem - (4 * root + 1), n - 1)
         ELSE SqrtBits(2 * root, 4 * rem, n - 1)

SqrtVal(a) ==
  IF a[1] = 0 THEN Zero
  ELSE LET odd == (a[2] % 2) = 1
           m   == IF odd THEN 2 * a[1] ELSE a[1]
           e   == IF odd THEN a[2] - 1 ELSE a[2]
           r0  == ISqrt(m, 0, 8191)
           rr  == SqrtBits(r0, m - r0 * r0, 14)
       IN Round(FALSE, rr[1], (e \div 2) - 14, rr[2] # 0)

\* f32::sqrt of a >= 0
FSqrt(a) == CHOOSE r \in {SqrtVal(x) : x \in {a}} : TRUE

(***************************************************************************)
(* Literals of the source                                                  *)
(***************************************************************************)

\* 1.0
One == <<8388608, -23>>

\* 0.0001 as an f32 (the near-zero guard of the speed clamp)
SpeedEpsilon == <<13743895, -37>>

\* 0.001 as an f32 (the inset of the bounce)
BounceInset == <<8589935, -33>>

\* f32::MAX
F32Max == <<16777215, 104>>

(***************************************************************************)
(* Checked slice access.  Indices count from 0, as in the source.          *)
(***************************************************************************)

\* slice.get(idx).is_some()
Has(buf, idx) == idx < Len(buf)

\* slice.get(idx).copied().unwrap_or(0.0)
Get(buf, idx) == IF idx < Len(buf) THEN buf[idx + 1] ELSE Zero

\* if let Some(x) = slice.get_mut(idx) { *x = v }
Put(buf, idx, v) == IF idx < Len(buf) THEN [buf EXCEPT ![idx + 1] = v] ELSE buf

\* let x = e; F(x): a local of the source, evaluated once and then used.
With(e, F(_)) == CHOOSE r \in {F(x) : x \in {e}} : TRUE

\* let x = e1; let y = e2; F(x, y)
With2(e1, e2, F(_, _)) == CHOOSE r \in {F(x, y) : x \in {e1}, y \in {e2}} : TRUE

(***************************************************************************)
(* integrate_all                                                           *)
(***************************************************************************)

\* The velocity update with drag in the place of drag_factor = 1 - drag; C2
\* tells it from integrate_velocity.
integrate_velocity_dragged(v, a, dt, drag) ==
  FMul(FAdd(v, FMul(a, dt)), drag)

\* (v + a * dt) * drag_factor, one component of the velocity update
integrate_velocity(v, a, dt, drag) ==
  With(FSub(One, drag), LAMBDA drag_factor :
    FMul(FAdd(v, FMul(a, dt)), drag_factor))

\* The speed clamp without the guard speed_sq > 0.0001 on its lower branch; C9
\* tells it from integrate_clamp.
integrate_clamp_unguarded(new_vx, new_vy, min_speed, max_speed) ==
  With2(FMul(min_speed, min_speed), FMul(max_speed, max_speed),
        LAMBDA min_speed_sq, max_speed_sq :
  With(FAdd(FMul(new_vx, new_vx), FMul(new_vy, new_vy)), LAMBDA speed_sq :
    IF FGt(speed_sq, max_speed_sq)
      THEN With(FDiv(max_speed, FSqrt(speed_sq)), LAMBDA scale :
             <<FMul(new_vx, scale), FMul(new_vy, scale)>>)
    ELSE IF FLt(speed_sq, min_speed_sq)
      THEN With(FDiv(min_speed, FSqrt(speed_sq)), LAMBDA scale :
             <<FMul(new_vx, scale), FMul(new_vy, scale)>>)
    ELSE <<new_vx, new_vy>>))

\* The speed clamp of integrate_all on the updated velocity: <<vx, vy>>.
integrate_clamp(new_vx, new_vy, min_speed, max_speed) ==
  With2(FMul(min_speed, min_speed), FMul(max_speed, max_speed),
        LAMBDA min_speed_sq, max_speed_sq :
  With(FAdd(FMul(new_vx, new_vx), FMul(new_vy, new_vy)), LAMBDA speed_sq :
    IF FGt(speed_sq, max_speed_sq)
      THEN With(FDiv(max_speed, FSqrt(speed_sq)), LAMBDA scale :
             <<FMul(new_vx, scale), FMul(new_vy, scale)>>)
    ELSE IF FLt(speed_sq, min_speed_sq) /\ FGt(speed_sq, SpeedEpsilon)
      THEN With(FDiv(min_speed, FSqrt(speed_sq)), LAMBDA scale :
             <<FMul(new_vx, scale), FMul(new_vy, scale)>>)
    ELSE <<new_vx, new_vy>>))

\* The body of the loop reading the velocity of agent i + 1 instead of agent
\* i's, so that the order of the steps shows; C10 tells it from integrate_step.
integrate_step_neighbour(pos, vel, acc, i, dt, min_speed, max_speed, drag) ==
  With(i * 2, LAMBDA idx :
  With2(Get(acc, idx), Get(acc, idx + 1), LAMBDA ax, ay :
  With2(Get(vel, idx + 2), Get(vel, idx + 3), LAMBDA vx, vy :
  With2(integrate_velocity(vx, ax, dt, drag),
        integrate_velocity(vy, ay, dt, drag), LAMBDA new_vx, new_vy :
  With(integrate_clamp(new_vx, new_vy, min_speed, max_speed), LAMBDA nv :
  With(Put(Put(vel, idx, nv[1]), idx + 1, nv[2]), LAMBDA vel1 :
  With2(Get(pos, idx), Get(pos, idx + 1), LAMBDA px, py :
  With(Put(pos, idx, FAdd(px, FMul(nv[1], dt))), LAMBDA pos1 :
    <<Put(pos1, idx + 1, FAdd(py, FMul(nv[2], dt))), vel1>>))))))))

\* The body of the loop of integrate_all for agent i: <<positions, velocities>>.
integrate_step(pos, vel, acc, i, dt, min_speed, max_speed, drag) ==
  With(i * 2, LAMBDA idx :
  With2(Get(acc, idx), Get(acc, idx + 1), LAMBDA ax, ay :
  With2(Get(vel, idx), Get(vel, idx + 1), LAMBDA vx, vy :
  With2(integrate_velocity(vx, ax, dt, drag),
        integrate_velocity(vy, ay, dt, drag), LAMBDA new_vx, new_vy :
  With(integrate_clamp(new_vx, new_vy, min_speed, max_speed), LAMBDA nv :
  With(Put(Put(vel, idx, nv[1]), idx + 1, nv[2]), LAMBDA vel1 :
  With2(Get(pos, idx), Get(pos, idx + 1), LAMBDA px, py :
  With(Put(pos, idx, FAdd(px, FMul(nv[1], dt))), LAMBDA pos1 :
    <<Put(pos1, idx + 1, FAdd(py, FMul(nv[2], dt))), vel1>>))))))))

RECURSIVE integrate_loop(_, _, _, _, _, _, _, _, _)
integrate_loop(pos, vel, acc, i, count, dt, min_speed, max_speed, drag) ==
  IF i >= count THEN <<pos, vel>>
  ELSE With(integrate_step(pos, vel, acc, i, dt, min_speed, max_speed, drag),
            LAMBDA s : integrate_loop(s[1], s[2], acc, i + 1, count, dt,
                                      min_speed, max_speed, drag))

\* integrate_all: <<positions, velocities>> after the call.
integrate_all(pos, vel, acc, dt, min_speed, max_speed, drag) ==
  integrate_loop(pos, vel, acc, 0, Len(pos) \div 2, dt, min_speed, max_speed,
                 drag)

(***************************************************************************)
(* apply_drag_all                                                          *)
(***************************************************************************)

apply_drag_all(vel, drag) ==
  With(FSub(One, drag), LAMBDA factor :
    [k \in 1..Len(vel) |-> FMul(vel[k], factor)])

(***************************************************************************)
(* clamp_speeds_all                                                        *)
(***************************************************************************)

\* The body of the loop with the scale max_speed / speed_sq, the square root
\* forgotten; C5 tells it from clamp_step.
clamp_step_squared(vel, i, min_speed, max_speed) ==
  With(i * 2, LAMBDA idx :
  With2(FMul(min_speed, min_speed), FMul(max_speed, max_speed),
        LAMBDA min_sq, max_sq :
  With2(Get(vel, idx), Get(vel, idx + 1), LAMBDA vx, vy :
  With(FAdd(FMul(vx, vx), FMul(vy, vy)), LAMBDA speed_sq :
    IF FGt(speed_sq, max_sq)
      THEN With(FDiv(max_speed, speed_sq), LAMBDA scale :
             Put(Put(vel, idx, FMul(vx, scale)), idx + 1, FMul(vy, scale)))
    ELSE IF FLt(speed_sq, min_sq) /\ FGt(speed_sq, SpeedEpsilon)
      THEN With(FDiv(min_speed, FSqrt(speed_sq)), LAMBDA scale :
             Put(Put(vel, idx, FMul(vx, scale)), idx + 1, FMul(vy, scale)))
    ELSE vel))))

\* The body of the loop of clamp_speeds_all for agent i.
clamp_step(vel, i, min_speed, max_speed) ==
  With(i * 2, LAMBDA idx :
  With2(FMul(min_speed, min_speed), FMul(max_speed, max_speed),
        LAMBDA min_sq, max_sq :
  With2(Get(vel, idx), Get(vel, idx + 1), LAMBDA vx, vy :
  With(FAdd(FMul(vx, vx), FMul(vy, vy)), LAMBDA speed_sq :
    IF FGt(speed_sq, max_sq)
      THEN With(FDiv(max_speed, FSqrt(speed_sq)), LAMBDA scale :
             Put(Put(vel, idx, FMul(vx, scale)), idx + 1, FMul(vy, scale)))
    ELSE IF FLt(speed_sq, min_sq) /\ FGt(speed_sq, SpeedEpsilon)
      THEN With(FDiv(min_speed, FSqrt(speed_sq)), LAMBDA scale :
             Put(Put(vel, idx, FMul(vx, scale)), idx + 1, FMul(vy, scale)))
    ELSE vel))))

RECURSIVE clamp_loop(_, _, _, _, _)
clamp_loop(vel, i, count, min_speed, max_speed) ==
  IF i >= count THEN vel
  ELSE With(clamp_step(vel, i, min_speed, max_speed), LAMBDA vel1 :
         clamp_loop(vel1, i + 1, count, min_speed, max_speed))

clamp_speeds_all(vel, min_speed, max_speed) ==
  clamp_loop(vel, 0, Len(vel) \div 2, min_speed, max_speed)

(***************************************************************************)
(* compute_distances_batch                                                 *)
(***************************************************************************)

\* Squared distance from (px, py) to target j.
dist_sq(px, py, tgt, j) ==
  With(j * 2, LAMBDA tidx :
  With2(FSub(px, Get(tgt, tidx)), FSub(py, Get(tgt, tidx + 1)), LAMBDA dx, dy :
    FAdd(FMul(dx, dx), FMul(dy, dy))))

\* The inner loop keeping the distance to the target it saw last; C7 tells it
\* from nearest_loop.
RECURSIVE nearest_loop_last(_, _, _, _, _, _)
nearest_loop_last(px, py, tgt, j, target_count, min_dist_sq) ==
  IF j >= target_count THEN min_dist_sq
  ELSE With(dist_sq(px, py, tgt, j), LAMBDA d :
         nearest_loop_last(px, py, tgt, j + 1, target_count, d))

\* The inner loop over the targets from j on, min_dist_sq so far.
RECURSIVE nearest_loop(_, _, _, _, _, _)
nearest_loop(px, py, tgt, j, target_count, min_dist_sq) ==
  IF j >= target_count THEN min_dist_sq
  ELSE With(dist_sq(px, py, tgt, j), LAMBDA d :
         nearest_loop(px, py, tgt, j + 1, target_count,
                      IF FLt(d, min_dist_sq) THEN d ELSE min_dist_sq))

\* The body of the outer loop for agent i.
distances_step(pos, tgt, o, i) ==
  With(i * 2, LAMBDA idx :
  With2(Get(pos, idx), Get(pos, idx + 1), LAMBDA px, py :
  With(nearest_loop(px, py, tgt, 0, Len(tgt) \div 2, F32Max), LAMBDA m :
    Put(o, i, m))))

RECURSIVE distances_loop(_, _, _, _, _)
distances_loop(pos, tgt, o, i, count) ==
  IF i >= count THEN o
  ELSE With(distances_step(pos, tgt, o, i), LAMBDA o1 :
         distances_loop(pos, tgt, o1, i + 1, count))

\* compute_distances_batch: out after the call.
compute_distances_batch(pos, tgt, o) ==
  distances_loop(pos, tgt, o, 0, Len(pos) \div 2)

(***************************************************************************)
(* wrap_positions_all                                                      *)
(***************************************************************************)

\* One coordinate against its dimension with p > dim for p >= dim; C6 tells it
\* from wrap_coord.
wrap_coord_strict(p, dim) ==
  IF FLt(p, Zero) THEN FAdd(p, dim)
  ELSE IF FGt(p, dim) THEN FSub(p, dim)
  ELSE p

\* One coordinate against its dimension.
wrap_coord(p, dim) ==
  IF FLt(p, Zero) THEN FAdd(p, dim)
  ELSE IF FGe(p, dim) THEN FSub(p, dim)
  ELSE p

\* if let Some(p) = positions.get_mut(k) { ... }
wrap_at(pos, k, dim) ==
  IF Has(pos, k) THEN With(wrap_coord(pos[k + 1], dim), LAMBDA p : Put(pos, k, p))
  ELSE pos

wrap_step(pos, i, width, height) ==
  With(i * 2, LAMBDA idx :
  With(wrap_at(pos, idx, width), LAMBDA pos1 :
    wrap_at(pos1, idx + 1, height)))

RECURSIVE wrap_loop(_, _, _, _, _)
wrap_loop(pos, i, count, width, height) ==
  IF i >= count THEN pos
  ELSE With(wrap_step(pos, i, width, height), LAMBDA pos1 :
         wrap_loop(pos1, i + 1, count, width, height))

wrap_positions_all(pos, width, height) ==
  wrap_loop(pos, 0, Len(pos) \div 2, width, height)

(***************************************************************************)
(* bounce_positions_all                                                    *)
(***************************************************************************)

\* One axis with the velocity component negated at both edges; C4 tells it
\* from bounce_axis.
bounce_axis_negating(p, v, dim) ==
  IF FLt(p, Zero) THEN <<Zero, FNeg(v)>>
  ELSE IF FGe(p, dim) THEN <<FSub(dim, BounceInset), FNeg(v)>>
  ELSE <<p, v>>

\* One axis of one agent, position p and velocity component v: <<p, v>>.
bounce_axis(p, v, dim) ==
  IF FLt(p, Zero) THEN <<Zero, FAbs(v)>>
  ELSE IF FGe(p, dim) THEN <<FSub(dim, BounceInset), FNeg(FAbs(v))>>
  ELSE <<p, v>>

\* if let (Some(p), Some(v)) = (positions.get_mut(k), velocities.get_mut(k))
bounce_at(pos, vel, k, dim) ==
  IF Has(pos, k) /\ Has(vel, k)
    THEN With(bounce_axis(pos[k + 1], vel[k + 1], dim), LAMBDA b :
           <<Put(pos, k, b[1]), Put(vel, k, b[2])>>)
    ELSE <<pos, vel>>

bounce_step(pos, vel, i, width, height) ==
  With(i * 2, LAMBDA idx :
  With(bounce_at(pos, vel, idx, width), LAMBDA x :
    bounce_at(x[1], x[2], idx + 1, height)))

RECURSIVE bounce_loop(_, _, _, _, _, _)
bounce_loop(pos, vel, i, count, width, height) ==
  IF i >= count THEN <<pos, vel>>
  ELSE With(bounce_step(pos, vel, i, width, height), LAMBDA s :
         bounce_loop(s[1], s[2], i + 1, count, width, height))

\* bounce_positions_all: <<positions, velocities>> after the call.
bounce_positions_all(pos, vel, width, height) ==
  bounce_loop(pos, vel, 0, Len(pos) \div 2, width, height)

(***************************************************************************)
(* reset_accelerations_all, add_force_all                                  *)
(***************************************************************************)

reset_accelerations_all(acc) == [k \in 1..Len(acc) |-> Zero]

\* The body of the loop storing the force instead of adding it; C8 tells it
\* from add_force_step.
add_force_step_storing(acc, i, force_x, force_y) ==
  With(i * 2, LAMBDA idx :
  With(Put(acc, idx, force_x), LAMBDA acc1 :
    Put(acc1, idx + 1, force_y)))

\* The body of the loop of add_force_all for agent i.
add_force_step(acc, i, force_x, force_y) ==
  With(i * 2, LAMBDA idx :
  With(Put(acc, idx, FAdd(Get(acc, idx), force_x)), LAMBDA acc1 :
    Put(acc1, idx + 1, FAdd(Get(acc1, idx + 1), force_y))))

RECURSIVE add_force_loop(_, _, _, _, _)
add_force_loop(acc, i, count, force_x, force_y) ==
  IF i >= count THEN acc
  ELSE With(add_force_step(acc, i, force_x, force_y), LAMBDA acc1 :
         add_force_loop(acc1, i + 1, count, force_x, force_y))

add_force_all(acc, force_x, force_y) ==
  add_force_loop(acc, 0, Len(acc) \div 2, force_x, force_y)

(***************************************************************************)
(* The host and its buffers.  The kernels hold no state: the state is the  *)
(* buffers the host owns, and a step is one call of a kernel on them.      *)
(* trace records the calls made so far, each with the buffers as they were *)
(* before it; done lists the agents already stepped by a call of           *)
(* integrate_all whose loop is run in an arbitrary order.                  *)
(***************************************************************************)

VARIABLES positions, velocities, accelerations, targets, out, trace, done

vars == <<positions, velocities, accelerations, targets, out, trace, done>>

\* Longest buffer the host hands over, in scalars.
MaxLen == 4

\* Longest out buffer.
MaxOut == 2

\* Calls of a behaviour of the whole library.
MaxCalls == 1

\* The first n values of vals repeated.
Cycle(vals, n) == [k \in 1..n |-> vals[((k - 1) % Len(vals)) + 1]]

Prefixes(vals, max) == {Cycle(vals, n) : n \in 0..max}

Call(op, args) ==
  [op     |-> op,
   args   |-> args,
   before |-> [positions     |-> positions,
               velocities    |-> velocities,
               accelerations |-> accelerations,
               targets       |-> targets,
               out           |-> out]]

Last == trace[Len(trace)]

IntegrateAll(dt, min_speed, max_speed, drag) ==
  /\ LET r == integrate_all(positions, velocities, accelerations, dt,
                            min_speed, max_speed, drag)
     IN /\ positions' = r[1]
        /\ velocities' = r[2]
  /\ trace' = Append(trace, Call("integrate_all",
                                 <<dt, min_speed, max_speed, drag>>))
  /\ UNCHANGED <<accelerations, targets, out, done>>

ApplyDragAll(drag) ==
  /\ velocities' = apply_drag_all(velocities, drag)
  /\ trace' = Append(trace, Call("apply_drag_all", <<drag>>))
  /\ UNCHANGED <<positions, accelerations, targets, out, done>>

ClampSpeedsAll(min_speed, max_speed) ==
  /\ velocities' = clamp_speeds_all(velocities, min_speed, max_speed)
  /\ trace' = Append(trace, Call("clamp_speeds_all", <<min_speed, max_speed>>))
  /\ UNCHANGED <<positions, accelerations, targets, out, done>>

ComputeDistancesBatch ==
  /\ out' = compute_distances_batch(positions, targets, out)
  /\ trace' = Append(trace, Call("compute_distances_batch", <<>>))
  /\ UNCHANGED <<positions, velocities, accelerations, targets, done>>

WrapPositionsAll(width, height) ==
  /\ positions' = wrap_positions_all(positions, width, height)
  /\ trace' = Append(trace, Call("wrap_positions_all", <<width, height>>))
  /\ UNCHANGED <<velocities, accelerations, targets, out, done>>

BouncePositionsAll(width, height) ==
  /\ LET r == bounce_positions_all(positions, velocities, width, height)
     IN /\ positions' = r[1]
        /\ velocities' = r[2]
  /\ trace' = Append(trace, Call("bounce_positions_all", <<width, height>>))
  /\ UNCHANGED <<accelerations, targets, out, done>>

ResetAccelerationsAll ==
  /\ accelerations' = reset_accelerations_all(accelerations)
  /\ trace' = Append(trace, Call("reset_accelerations_all", <<>>))
  /\ UNCHANGED <<positions, velocities, targets, out, done>>

AddForceAll(force_x, force_y) ==
  /\ accelerations' = add_force_all(accelerations, force_x, force_y)
  /\ trace' = Append(trace, Call("add_force_all", <<force_x, force_y>>))
  /\ UNCHANGED <<positions, velocities, targets, out, done>>

(***************************************************************************)
(* The whole library on buffers of any lengths, equal or not.              *)
(***************************************************************************)

RaggedPositions == <<Lit(-1, 0), Lit(101, 0), Lit(10, 0), Lit(10, 0), Lit(3, 0)>>

RaggedVelocities == <<Lit(1, 0), Lit(-2, 0), Lit(3, 0), Lit(4, 0), Lit(-1, 0)>>

RaggedAccelerations == <<Lit(1, 0), Lit(1, -1), Lit(-1, 0), Lit(2, 0), Lit(1, 0)>>

RaggedTargets == <<Lit(3, 0), Lit(4, 0), Lit(1, 0), Lit(1, 0), Lit(9, 0)>>

RaggedOut == <<Lit(7, 0), Lit(8, 0), Lit(9, 0)>>

Init ==
  /\ positions \in Prefixes(RaggedPositions, MaxLen)
  /\ velocities \in Prefixes(RaggedVelocities, MaxLen)
  /\ accelerations \in Prefixes(RaggedAccelerations, MaxLen)
  /\ targets = RaggedTargets
  /\ out \in Prefixes(RaggedOut, MaxOut)
  /\ trace = <<>>
  /\ done = <<>>

CanCall == Len(trace) < MaxCalls

Next ==
  \/ CanCall /\ IntegrateAll(One, Zero, Lit(10, 0), Zero)
  \/ CanCall /\ ApplyDragAll(Lit(1, -1))
  \/ CanCall /\ ClampSpeedsAll(One, Lit(5, 0))
  \/ CanCall /\ ComputeDistancesBatch
  \/ CanCall /\ WrapPositionsAll(Lit(100, 0), Lit(100, 0))
  \/ CanCall /\ BouncePositionsAll(Lit(100, 0), Lit(100, 0))
  \/ CanCall /\ ResetAccelerationsAll
  \/ CanCall /\ AddForceAll(One, Lit(-1, 0))

Spec == Init /\ [][Next]_vars

(***************************************************************************)
(* Helpers of the properties                                               *)
(***************************************************************************)

Min(a, b) == IF a < b THEN a ELSE b

\* new is old except perhaps at the indices (from 0) below n.
SameFrom(old, new, n) ==
  /\ Len(new) = Len(old)
  /\ \A k \in 1..Len(old) : k > n => new[k] = old[k]

\* The agents of a buffer: its (x, y) pairs.
Agents(buf) == 0..((Len(buf) \div 2) - 1)

Called(op) == Len(trace) > 0 /\ Last.op = op

\* vx * vx + vy * vy, the squared speed the clamps compare
SpeedSq(vx, vy) == FAdd(FMul(vx, vx), FMul(vy, vy))

\* C1 (as claimed): a call of integrate_all, bounce_positions_all or
\* compute_distances_batch on buffers of any lengths changes no element that
\* lies beyond the overlapping prefix of the buffers it takes: only the agents
\* of the overlapping prefix are processed.
C1_OnlyOverlapProcessed ==
  /\ Called("integrate_all") =>
       LET b == Last.before
           n == Min(Len(b.positions),
                    Min(Len(b.velocities), Len(b.accelerations)))
       IN /\ SameFrom(b.positions, positions, n)
          /\ SameFrom(b.velocities, velocities, n)
  /\ Called("bounce_positions_all") =>
       LET b == Last.before
           n == Min(Len(b.positions), Len(b.velocities))
       IN /\ SameFrom(b.positions, positions, n)
          /\ SameFrom(b.velocities, velocities, n)
  /\ Called("compute_distances_batch") =>
       LET b == Last.before
       IN /\ SameFrom(b.out, out, Min(Len(b.positions) \div 2, Len(b.out)))
          /\ positions = b.positions
          /\ targets = b.targets

(***************************************************************************)
(* The speed clamp: clamp_speeds_all and integrate_all on buffers of equal *)
(* lengths.                                                                *)
(***************************************************************************)

\* Calls of a behaviour of the speed kernels.
MaxSpeedCalls == 1

\* 0.1, 0.005 and 0.001 as f32
Tenth == <<13421773, -27>>

Tiny == <<10737418, -31>>

Milli == <<8589935, -33>>

SpeedVelocities ==
  {<<Lit(10, 0), Zero, Tenth, Zero, Lit(3, 0)>>,
   <<Lit(3, 0), Lit(4, 0), Tiny, Zero, One>>,
   <<Lit(-6, 0), Lit(8, 0), Zero, Zero, Tiny>>,
   <<One, Zero, Zero, One, Lit(7, 0)>>,
   <<Tiny, FNeg(Tiny), Lit(1, 1), Lit(-3, 0), Tenth>>}

SpeedPositions == <<Zero, Zero, Lit(10, 0), Lit(10, 0), Lit(-5, 0)>>

SpeedAccelerations ==
  {<<Zero, Zero, Zero, Zero, Zero>>,
   <<One, Lit(-1, 0), Lit(1, -1), Lit(2, 0), One>>}

InitSpeed ==
  /\ \E n \in 0..MaxLen :
       /\ positions = Cycle(SpeedPositions, n)
       /\ velocities \in {Cycle(v, n) : v \in SpeedVelocities}
       /\ accelerations \in {Cycle(a, n) : a \in SpeedAccelerations}
  /\ targets = <<>>
  /\ out = <<>>
  /\ trace = <<>>
  /\ done = <<>>

CanCallSpeed == Len(trace) < MaxSpeedCalls

NextSpeed ==
  \/ /\ CanCallSpeed
     /\ \E dt \in {One, Lit(1, -1)}, min_speed \in {Zero, One},
           max_speed \in {Lit(5, 0), Milli, Zero}, drag \in {Zero, Lit(1, -1)} :
          IntegrateAll(dt, min_speed, max_speed, drag)
  \/ /\ CanCallSpeed
     /\ \E min_speed \in {Zero, One},
           max_speed \in {Lit(10, 0), Lit(5, 0), Milli, Zero, Lit(-1, 0)} :
          ClampSpeedsAll(min_speed, max_speed)

SpecSpeed == InitSpeed /\ [][NextSpeed]_vars

\* The velocity (or position) pair of agent i of a buffer.
Pair(buf, i) == <<buf[2 * i + 1], buf[2 * i + 2]>>

\* The speed of a pair, computed as test_clamp_speeds computes it.
Magnitude(w) == FSqrt(SpeedSq(w[1], w[2]))

\* Relative tolerance of the comparisons "within epsilon": 2^-20.
Tolerance == <<8388608, -43>>

Near(a, b) == FLe(FAbs(FSub(a, b)), FMul(FAbs(b), Tolerance))

Sign(a) == IF a[1] > 0 THEN 1 ELSE IF a[1] < 0 THEN -1 ELSE 0

\* w points the way u does: the components keep their signs and the cross
\* product of the two vectors vanishes, up to rounding.
SameDirection(u, w) ==
  /\ Sign(w[1]) = Sign(u[1])
  /\ Sign(w[2]) = Sign(u[2])
  /\ LET p == FMul(w[1], u[2])
         q == FMul(w[2], u[1])
     IN FLe(FAbs(FSub(p, q)), FMul(FAbs(p), Tolerance))

\* The velocity pair of agent i as it enters the clamp of the last call: the
\* stored one for clamp_speeds_all, the updated one for integrate_all.
Unclamped(i) ==
  LET b == Last.before
  IN IF Last.op = "clamp_speeds_all" THEN Pair(b.velocities, i)
     ELSE <<integrate_velocity(b.velocities[2 * i + 1],
                               b.accelerations[2 * i + 1],
                               Last.args[1], Last.args[4]),
            integrate_velocity(b.velocities[2 * i + 2],
                               b.accelerations[2 * i + 2],
                               Last.args[1], Last.args[4])>>

\* min_speed and max_speed of the last call.
MinSpeed == IF Last.op = "clamp_speeds_all" THEN Last.args[1] ELSE Last.args[2]

MaxSpeed == IF Last.op = "clamp_speeds_all" THEN Last.args[2] ELSE Last.args[3]

Clamping == Called("clamp_speeds_all") \/ Called("integrate_all")

\* The squared speed of u is above max_speed squared.
TooFast(u) == FGt(SpeedSq(u[1], u[2]), FMul(MaxSpeed, MaxSpeed))

\* The squared speed of u is below min_speed squared and above the guard.
TooSlow(u) ==
  /\ FLt(SpeedSq(u[1], u[2]), FMul(MinSpeed, MinSpeed))
  /\ FGt(SpeedSq(u[1], u[2]), SpeedEpsilon)

ZeroAccelerationNoDrag ==
  /\ Called("integrate_all")
  /\ Last.args[4] = Zero
  /\ \A k \in 1..Len(Last.before.accelerations) :
       Last.before.accelerations[k] = Zero

\* Agent i has drifted by velocity * dt and kept its velocity.
Drifted(i) ==
  LET b  == Last.before
      dt == Last.args[1]
  IN /\ positions[2 * i + 1] =
          FAdd(b.positions[2 * i + 1], FMul(b.velocities[2 * i + 1], dt))
     /\ positions[2 * i + 2] =
          FAdd(b.positions[2 * i + 2], FMul(b.velocities[2 * i + 2], dt))
     /\ Pair(velocities, i) = Pair(b.velocities, i)

\* C2 (as claimed): after integrate_all with zero accelerations and zero drag
\* on equal-length buffers, whatever dt, min_speed and max_speed are, every
\* position is the old one plus velocity * dt and every velocity is unchanged.
C2_DriftForAnySpeedLimits ==
  ZeroAccelerationNoDrag => \A i \in Agents(positions) : Drifted(i)

\* C2 (amended): after integrate_all with zero accelerations and zero drag on
\* equal-length buffers, every agent whose velocity the speed clamp does not
\* rescale (its squared speed is neither above max_speed^2 nor both below
\* min_speed^2 and above 0.0001) has its position moved by velocity * dt (in
\* f32 arithmetic) and its velocity unchanged.
C2_DriftWhenNotClamped ==
  ZeroAccelerationNoDrag =>
    \A i \in Agents(positions) :
      LET u == Pair(Last.before.velocities, i)
      IN ~TooFast(u) /\ ~TooSlow(u) => Drifted(i)

\* C2 witness: a call with zero accelerations and zero drag and dt = 0.5 after
\* which an agent the clamp left alone has moved.
C2_Witness ==
  /\ ZeroAccelerationNoDrag
  /\ Last.args[1] = Lit(1, -1)
  /\ \E i \in Agents(positions) :
       LET u == Pair(Last.before.velocities, i)
       IN /\ ~TooFast(u) /\ ~TooSlow(u)
          /\ Pair(positions, i) # Pair(Last.before.positions, i)
          /\ Drifted(i)

\* C5 (as claimed): after clamp_speeds_all, and in the velocity integrate_all
\* stores, every velocity whose magnitude was above max_speed has magnitude
\* equal to max_speed and its direction unchanged.
C5_ClampedToExactlyMaxSpeed ==
  Clamping =>
    \A i \in Agents(velocities) :
      LET u == Unclamped(i)
          w == Pair(velocities, i)
      IN FGt(Magnitude(u), MaxSpeed) =>
           Magnitude(w) = MaxSpeed /\ SameDirection(u, w)

\* C5 (amended): for max_speed > 0 and finite values in the normal f32 range,
\* every velocity whose f32 squared speed vx*vx + vy*vy exceeds
\* max_speed*max_speed is rescaled, by clamp_speeds_all and by the clamp of
\* integrate_all, to a vector whose f32 magnitude is max_speed within a
\* relative error of 2^-20, with its direction unchanged up to rounding.
C5_ClampedToMaxSpeedWithinEpsilon ==
  Clamping =>
    \A i \in Agents(velocities) :
      LET u == Unclamped(i)
          w == Pair(velocities, i)
      IN FGt(MaxSpeed, Zero) /\ TooFast(u) =>
           Near(Magnitude(w), MaxSpeed) /\ SameDirection(u, w)

\* C5 witness: clamp_speeds_all with max_speed > 0 has rescaled a velocity that
\* was too fast.
C5_Witness ==
  /\ Called("clamp_speeds_all")
  /\ FGt(MaxSpeed, Zero)
  /\ \E i \in Agents(velocities) :
       /\ TooFast(Unclamped(i))
       /\ Pair(velocities, i) # Unclamped(i)
       /\ Near(Magnitude(Pair(velocities, i)), MaxSpeed)

\* C9 (as claimed): whatever min_speed and max_speed are, the clamps leave
\* every velocity whose squared magnitude is <= 0.0001 as it was.
C9_NearZeroNeverScaled ==
  Clamping =>
    \A i \in Agents(velocities) :
      LET u == Unclamped(i)
      IN FLe(SpeedSq(u[1], u[2]), SpeedEpsilon) => Pair(velocities, i) = u

\* C9 (amended): the clamps leave every velocity whose squared magnitude is
\* <= 0.0001 and not above max_speed^2 as it was, even when its magnitude is
\* below min_speed.
C9_NearZeroNotRaisedToMinSpeed ==
  Clamping =>
    \A i \in Agents(velocities) :
      LET u == Unclamped(i)
      IN FLe(SpeedSq(u[1], u[2]), SpeedEpsilon) /\ ~TooFast(u) =>
           Pair(velocities, i) = u

\* C9 witness: clamp_speeds_all with min_speed = 1 has left alone a velocity
\* that is not zero and whose squared magnitude is <= 0.0001.
C9_Witness ==
  /\ Called("clamp_speeds_all")
  /\ MinSpeed = One
  /\ \E i \in Agents(velocities) :
       LET u == Unclamped(i)
       IN /\ u # <<Zero, Zero>>
          /\ FLe(SpeedSq(u[1], u[2]), SpeedEpsilon)
          /\ ~TooFast(u)
          /\ Pair(velocities, i) = u

(***************************************************************************)
(* bounce_positions_all                                                    *)
(***************************************************************************)

\* Calls of a behaviour of the boundary kernels.
MaxBoundaryCalls == 1

BouncePositions ==
  {<<Lit(-1, 0), Lit(101, 0), Lit(50, 0), Lit(100, 0), Lit(70000, 0)>>,
   <<Lit(70000, 0), Lit(50, 0), Lit(-3, 0), Lit(-70000, 0), Zero>>,
   <<Zero, Lit(99, 0), Lit(65536, 0), Lit(40000, 0), Lit(-1, -10)>>}

BounceVelocities ==
  {<<Lit(-2, 0), Lit(3, 0), One, Lit(-1, 0), Zero>>,
   <<Lit(2, 0), Lit(-3, 0), Zero, Lit(4, 0), Lit(-5, 0)>>,
   <<One, One, Lit(-1, 0), Lit(-1, 0), Lit(2, 0)>>}

BounceWidths == {Lit(100, 0), Lit(65536, 0)}

BounceHeights == {Lit(100, 0), Lit(40000, 0)}

\* Buffers of any lengths, equal or not.
InitBounce ==
  /\ positions \in UNION {Prefixes(p, MaxLen) : p \in BouncePositions}
  /\ velocities \in UNION {Prefixes(v, MaxLen) : v \in BounceVelocities}
  /\ accelerations = <<>>
  /\ targets = <<>>
  /\ out = <<>>
  /\ trace = <<>>
  /\ done = <<>>

\* Buffers of equal lengths.
InitContain ==
  /\ \E n \in 0..MaxLen :
       /\ positions \in {Cycle(p, n) : p \in BouncePositions}
       /\ velocities \in {Cycle(v, n) : v \in BounceVelocities}
  /\ accelerations = <<>>
  /\ targets = <<>>
  /\ out = <<>>
  /\ trace = <<>>
  /\ done = <<>>

NextBounce ==
  /\ Len(trace) < MaxBoundaryCalls
  /\ \E width \in BounceWidths, height \in BounceHeights :
       BouncePositionsAll(width, height)

SpecBounce == InitBounce /\ [][NextBounce]_vars

SpecContain == InitContain /\ [][NextBounce]_vars

\* The dimension the coordinate at index k (from 1) is held against.
Dimension(k) == IF k % 2 = 1 THEN Last.args[1] ELSE Last.args[2]

\* C3 (as claimed): after bounce_positions_all every agent has 0 <= x < width
\* and 0 <= y < height, whatever the positions were before.
C3_BounceContains ==
  Called("bounce_positions_all") =>
    \A i \in Agents(positions) :
      \A k \in {2 * i + 1, 2 * i + 2} :
        FGe(positions[k], Zero) /\ FLt(positions[k], Dimension(k))

\* The coordinate at index k of an agent was outside its dimension before the
\* last call.
BelowZero(k) == FLt(Last.before.positions[k], Zero)

Beyond(k) == FGe(Last.before.positions[k], Dimension(k))

\* The indices of the coordinates of the agents that have a velocity component.
Bounced ==
  {k \in 1..(2 * (Len(positions) \div 2)) : k <= Len(velocities)}

\* C4 (as claimed): on every axis whose coordinate was < 0 or >= the dimension
\* before bounce_positions_all the velocity component has changed its sign; on
\* every other axis it is unchanged.
C4_BounceFlipsSign ==
  Called("bounce_positions_all") =>
    \A k \in Bounced :
      IF BelowZero(k) \/ Beyond(k)
        THEN Sign(velocities[k]) = -Sign(Last.before.velocities[k])
        ELSE velocities[k] = Last.before.velocities[k]

\* C4 (amended): on an axis whose coordinate was < 0 the velocity component
\* becomes its absolute value, on an axis whose coordinate was >= the dimension
\* it becomes minus its absolute value (so the sign changes only if the
\* component pointed out of the world), and on every other axis it is
\* unchanged; this for every coordinate of an agent that has both a position
\* and a velocity element.
C4_BounceTurnsInward ==
  Called("bounce_positions_all") =>
    \A k \in Bounced :
      LET v == Last.before.velocities[k]
      IN velocities[k] = IF BelowZero(k) THEN FAbs(v)
                         ELSE IF Beyond(k) THEN FNeg(FAbs(v))
                         ELSE v

\* C4 witness: one call has turned an outward component inward at each edge,
\* kept a component that already pointed inward, and left an inner axis alone.
C4_Witness ==
  /\ Called("bounce_positions_all")
  /\ \E k \in Bounced :
       BelowZero(k) /\ Sign(Last.before.velocities[k]) = -1
                    /\ Sign(velocities[k]) = 1
  /\ \E k \in Bounced :
       Beyond(k) /\ Sign(Last.before.velocities[k]) = 1
                 /\ Sign(velocities[k]) = -1
  /\ \E k \in Bounced :
       (BelowZero(k) \/ Beyond(k)) /\ Sign(velocities[k]) # 0
          /\ velocities[k] = Last.before.velocities[k]
  /\ \E k \in Bounced :
       ~BelowZero(k) /\ ~Beyond(k) /\ Sign(velocities[k]) # 0

(***************************************************************************)
(* wrap_positions_all                                                      *)
(***************************************************************************)

\* Calls of a behaviour of a kernel the host calls repeatedly.
MaxRepeat == 2

WrapPositions ==
  {<<Lit(-1, 0), Lit(101, 0), Lit(50, 0), Zero, Lit(100, 0)>>,
   <<Lit(250, 0), Lit(-150, 0), Lit(99, 0), Lit(100, 0), Lit(5, 0)>>,
   <<Lit(10, 0), Lit(20, 0), Lit(30, 0), Lit(40, 0), Lit(45, 0)>>,
   <<Lit(-1, -30), Tenth, Lit(65536, 0), Lit(-70000, 0), One>>}

InitWrap ==
  /\ positions \in UNION {Prefixes(p, MaxLen) : p \in WrapPositions}
  /\ velocities = <<>>
  /\ accelerations = <<>>
  /\ targets = <<>>
  /\ out = <<>>
  /\ trace = <<>>
  /\ done = <<>>

NextWrap ==
  /\ Len(trace) < MaxRepeat
  /\ \E width \in {Lit(100, 0), Lit(65536, 0)}, height \in {Lit(100, 0), Lit(50, 0)} :
       WrapPositionsAll(width, height)

SpecWrap == InitWrap /\ [][NextWrap]_vars

\* The indices (from 1) of the coordinates of the fully-paired agents.
Paired(buf) == 1..(2 * (Len(buf) \div 2))

\* Every coordinate of every agent of buf lies in [0, dimension).
Interior(buf) ==
  \A k \in Paired(buf) : FGe(buf[k], Zero) /\ FLt(buf[k], Dimension(k))

\* The call before the last one.
Previous == trace[Len(trace) - 1]

\* C6: wrap_positions_all corrects each coordinate of each fully-paired agent
\* by a single step: c < 0 becomes c + dimension, c >= dimension becomes
\* c - dimension, 0 <= c < dimension stays; so the call changes nothing when
\* every position is inside [0, width) x [0, height), and calling it twice on
\* such positions gives what calling it once gives.
C6_WrapSingleStep ==
  /\ Called("wrap_positions_all") =>
       LET b == Last.before.positions
       IN /\ Len(positions) = Len(b)
          /\ \A k \in 1..Len(b) :
               positions[k] =
                 IF k \notin Paired(b) THEN b[k]
                 ELSE IF FLt(b[k], Zero) THEN FAdd(b[k], Dimension(k))
                 ELSE IF FGe(b[k], Dimension(k)) THEN FSub(b[k], Dimension(k))
                 ELSE b[k]
          /\ Interior(b) => positions = b
  /\ /\ Len(trace) >= 2
     /\ Called("wrap_positions_all")
     /\ Previous.op = "wrap_positions_all"
     /\ Previous.args = Last.args
     /\ Interior(Previous.before.positions)
     => positions = Last.before.positions

\* C6 witness: the call has moved a coordinate below 0 up by the dimension and
\* a coordinate beyond the dimension down by it (-1 and 101 in a world 100
\* wide and high become 99 and 1), and a second call on the now inner
\* positions has changed nothing.
C6_Witness ==
  /\ Len(trace) = 2
  /\ Called("wrap_positions_all")
  /\ Previous.op = "wrap_positions_all"
  /\ Previous.args = <<Lit(100, 0), Lit(100, 0)>>
  /\ Last.args = Previous.args
  /\ Len(positions) >= 2
  /\ Pair(Previous.before.positions, 0) = <<Lit(-1, 0), Lit(101, 0)>>
  /\ Pair(Last.before.positions, 0) = <<Lit(99, 0), One>>
  /\ Interior(Last.before.positions)
  /\ positions = Last.before.positions

(***************************************************************************)
(* compute_distances_batch                                                 *)
(***************************************************************************)

DistPositions ==
  {<<Zero, Zero, Lit(5, 0), Lit(5, 0), Lit(-3, 0)>>,
   <<One, One, Lit(-2, 0), Lit(7, 0), Tenth>>}

DistTargets ==
  {<<>>,
   <<Lit(3, 0), Lit(4, 0), One, One>>,
   <<One, One, Lit(3, 0), Lit(4, 0)>>,
   <<Lit(3, 0), Lit(4, 0), One, One, Zero>>,
   <<Lit(2, 0), Zero, Lit(2, 0), Zero, Lit(-2, 0), Lit(7, 0)>>,
   <<Lit(9, 0)>>}

InitDist ==
  /\ positions \in UNION {Prefixes(p, MaxLen) : p \in DistPositions}
  /\ targets \in DistTargets
  /\ out \in Prefixes(RaggedOut, MaxOut)
  /\ velocities = <<>>
  /\ accelerations = <<>>
  /\ trace = <<>>
  /\ done = <<>>

NextDist == CanCall /\ ComputeDistancesBatch

SpecDist == InitDist /\ [][NextDist]_vars

\* The squared Euclidean distance between agent i and target j.
SquaredDistance(pos, tgt, i, j) ==
  LET dx == FSub(pos[2 * i + 1], tgt[2 * j + 1])
      dy == FSub(pos[2 * i + 2], tgt[2 * j + 2])
  IN FAdd(FMul(dx, dx), FMul(dy, dy))

\* C7: after compute_distances_batch, out[i] of every agent i that has a slot
\* in out is the least of the squared distances between agent i and the targets
\* (when there is a target); positions and targets are as before, and so is
\* every slot of out that belongs to no agent.
C7_NearestTarget ==
  Called("compute_distances_batch") =>
    LET b == Last.before
    IN /\ positions = b.positions
       /\ targets = b.targets
       /\ Len(out) = Len(b.out)
       /\ \A i \in Agents(positions) :
            i < Len(out) /\ Agents(targets) # {} =>
              /\ \A j \in Agents(targets) :
                   FLe(out[i + 1], SquaredDistance(positions, targets, i, j))
              /\ \E j \in Agents(targets) :
                   out[i + 1] = SquaredDistance(positions, targets, i, j)
       /\ \A k \in 1..Len(out) :
            k > Len(positions) \div 2 => out[k] = b.out[k]

\* C7 witness: agent (0, 0) with the targets (3, 4) and (1, 1), in this order,
\* has out[0] = 2.
C7_Witness ==
  /\ Called("compute_distances_batch")
  /\ Len(positions) >= 2
  /\ Len(out) >= 1
  /\ Pair(positions, 0) = <<Zero, Zero>>
  /\ Len(targets) >= 4
  /\ Pair(targets, 0) = <<Lit(3, 0), Lit(4, 0)>>
  /\ Pair(targets, 1) = <<One, One>>
  /\ out[1] = Lit(2, 0)

(***************************************************************************)
(* add_force_all                                                           *)
(***************************************************************************)

\* 2^24, above which the f32 spacing is 2
Big == <<8388608, 1>>

ForceAccelerations ==
  {<<Zero, Zero, One, Lit(2, 0), Lit(3, 0)>>,
   <<Big, One, Lit(-1, 0), Tenth, Lit(5, 0)>>,
   <<Tenth, Big, Lit(1, -1), Lit(-3, 0), Tiny>>}

Forces == {<<One, One>>, <<Tenth, Lit(-1, 0)>>, <<Lit(3, -1), Lit(1, -2)>>}

InitForce ==
  /\ accelerations \in UNION {Prefixes(a, MaxLen) : a \in ForceAccelerations}
  /\ positions = <<>>
  /\ velocities = <<>>
  /\ targets = <<>>
  /\ out = <<>>
  /\ trace = <<>>
  /\ done = <<>>

NextForce ==
  /\ Len(trace) < MaxRepeat
  /\ \E f \in Forces : AddForceAll(f[1], f[2])

SpecForce == InitForce /\ [][NextForce]_vars

TwoForces ==
  /\ Len(trace) >= 2
  /\ Last.op = "add_force_all"
  /\ Previous.op = "add_force_all"

\* What one call with the sum of the last two forces makes of the buffer the
\* first of the two calls found.
Summed ==
  add_force_all(Previous.before.accelerations,
                FAdd(Previous.args[1], Last.args[1]),
                FAdd(Previous.args[2], Last.args[2]))

\* a + b is an f32: the addition rounds nothing.
ExactSum(a, b) ==
  LET sum == FAdd(a, b)
  IN FSub(sum, a) = b /\ FSub(sum, b) = a

\* C8 (as claimed): add_force_all with F1 and then with F2 leaves the buffer as
\* one add_force_all with F1 + F2 leaves it.
C8_ForcesAccumulate == TwoForces => accelerations = Summed

\* C8 (amended): add_force_all with F1 and then with F2 leaves every component
\* a of the buffer for which the f32 additions a + f1 and f1 + f2 are exact
\* (round nothing) as one add_force_all with F1 + F2 leaves it; a component
\* whose additions round may differ in the last place.
C8_ForcesAccumulateWhenExact ==
  TwoForces =>
    /\ Len(accelerations) = Len(Summed)
    /\ \A k \in 1..Len(accelerations) :
         LET a  == Previous.before.accelerations[k]
             c  == IF k % 2 = 1 THEN 1 ELSE 2
             f1 == Previous.args[c]
             f2 == Last.args[c]
         IN k \notin Paired(accelerations)
              \/ (ExactSum(a, f1) /\ ExactSum(f1, f2))
              => accelerations[k] = Summed[k]

\* C8 witness: two calls with different forces whose additions are exact on an
\* agent with a nonzero acceleration have left it as the single call does.
C8_Witness ==
  /\ TwoForces
  /\ Previous.args # Last.args
  /\ \E i \in Agents(accelerations) :
       /\ \A k \in {2 * i + 1, 2 * i + 2} :
            LET a  == Previous.before.accelerations[k]
                c  == IF k % 2 = 1 THEN 1 ELSE 2
            IN /\ a # Zero
               /\ ExactSum(a, Previous.args[c])
               /\ ExactSum(Previous.args[c], Last.args[c])
               /\ accelerations[k] # a
       /\ Pair(accelerations, i) = Pair(Summed, i)

(***************************************************************************)
(* integrate_all with the agents stepped in any order                      *)
(***************************************************************************)

\* Agents of a call whose loop is run in any order.
MaxParAgents == 3

ParVelocities ==
  {<<Lit(10, 0), Zero, Tenth, Zero, Lit(3, 0), Lit(4, 0), One, Lit(-2, 0)>>,
   <<Lit(-6, 0), Lit(8, 0), Tiny, Zero, One, One, Lit(2, 0), Zero>>}

ParPositions == <<Zero, Zero, Lit(10, 0), Lit(10, 0), Lit(-5, 0), Lit(7, 0)>>

ParAccelerations == <<One, Lit(-1, 0), Lit(1, -1), Lit(2, 0), Zero, One>>

InitPar ==
  /\ \E n \in 0..MaxParAgents :
       /\ positions = Cycle(ParPositions, 2 * n)
       /\ velocities \in {Cycle(v, m) : v \in ParVelocities,
                                        m \in {2 * n, 2 * n - 1} \cap Nat}
       /\ accelerations = Cycle(ParAccelerations, 2 * n)
  /\ targets = <<>>
  /\ out = <<>>
  /\ trace = <<>>
  /\ done = <<>>

\* The agents the call in progress has still to step.
Pending ==
  IF trace = <<>> THEN {}
  ELSE Agents(Last.before.positions) \ {done[k] : k \in 1..Len(done)}

\* The host calls integrate_all; its loop has not yet stepped an agent.
BeginIntegrate(dt, min_speed, max_speed, drag) ==
  /\ trace = <<>>
  /\ trace' = <<Call("integrate_all", <<dt, min_speed, max_speed, drag>>)>>
  /\ UNCHANGED <<positions, velocities, accelerations, targets, out, done>>

\* The body of the loop for agent i, whichever agents were stepped before.
StepAgent(i) ==
  /\ i \in Pending
  /\ LET s == integrate_step(positions, velocities, accelerations, i,
                             Last.args[1], Last.args[2], Last.args[3],
                             Last.args[4])
     IN /\ positions' = s[1]
        /\ velocities' = s[2]
  /\ done' = Append(done, i)
  /\ UNCHANGED <<accelerations, targets, out, trace>>

NextPar ==
  \/ \E dt \in {One, Lit(1, -1)}, max_speed \in {Lit(5, 0), One} :
       BeginIntegrate(dt, One, max_speed, Lit(1, -3))
  \/ \E i \in 0..(MaxParAgents - 1) : StepAgent(i)

SpecPar == InitPar /\ [][NextPar]_vars

\* What the sequential loop of integrate_all from 0 to count-1 makes of the
\* buffers the call in progress found: <<positions, velocities>>.
Sequential ==
  integrate_all(Last.before.positions, Last.before.velocities,
                Last.before.accelerations, Last.args[1], Last.args[2],
                Last.args[3], Last.args[4])

\* C10: the step of agent i reads and writes only the indices 2i and 2i+1: an
\* agent not yet stepped has the position and velocity it had before the call,
\* and an agent already stepped has, whichever agents were stepped before and
\* after it, the position and velocity the sequential loop of integrate_all
\* gives it; so once every agent has been stepped, in whatever order,
\* positions and velocities are what the loop from 0 to count-1 yields.
C10_AnyOrderSameResult ==
  trace # <<>> =>
    /\ \A i \in Agents(Last.before.positions) :
         \A k \in {2 * i + 1, 2 * i + 2} :
           IF i \in Pending
             THEN /\ positions[k] = Last.before.positions[k]
                  /\ k <= Len(velocities) =>
                       velocities[k] = Last.before.velocities[k]
             ELSE /\ positions[k] = Sequential[1][k]
                  /\ k <= Len(velocities) => velocities[k] = Sequential[2][k]
    /\ Pending = {} => <<positions, velocities>> = Sequential

\* C10 witness: three agents have been stepped last one first, and every one
\* of them has moved.
C10_Witness ==
  /\ trace # <<>>
  /\ done = <<2, 1, 0>>
  /\ \A i \in 0..2 : Pair(positions, i) # Pair(Last.before.positions, i)
  /\ velocities # Last.before.velocities

====
